---- MODULE Spec2Model ----
(***************************************************************************)
(* Model of src/src/escape.rs: XML escaping of a string for attribute      *)
(* values and for PCDATA.                                                  *)
(*                                                                         *)
(* A Rust `char` is its code point (an integer); a Rust `str`/`String` is  *)
(* the sequence of its UTF-8 bytes, so that byte offsets, byte lengths and *)
(* slicing at a byte offset are what they are in the program.              *)
(***************************************************************************)
EXTENDS Integers, Sequences, FiniteSets, TLC

\* ------------------------------------------------------------------ bounds
\* Longest input, in characters.
MaxLen == 3

\* ------------------------------------------------------- characters, UTF-8
\* The characters the match arms of the two dispatch functions name.
LT == 60
GT == 62
QUOT == 34
APOS == 39
AMP == 38
NL == 10
CR == 13

\* Other characters of the inputs: 'a', '.', and U+2603 (three bytes in UTF-8).
LetterA == 97
Period == 46
Snowman == 9731

\* char::encode_utf8, as String::push(c) uses it.
Utf8(c) ==
    IF c < 128 THEN <<c>>
    ELSE IF c < 2048 THEN <<192 + (c \div 64), 128 + (c % 64)>>
    ELSE IF c < 65536
         THEN <<224 + (c \div 4096), 128 + ((c \div 64) % 64), 128 + (c % 64)>>
         ELSE <<240 + (c \div 262144), 128 + ((c \div 4096) % 64),
                128 + ((c \div 64) % 64), 128 + (c % 64)>>

\* A string literal: the UTF-8 bytes of a sequence of characters.
RECURSIVE StrLit(_)
StrLit(cs) == IF cs = <<>> THEN <<>> ELSE Utf8(Head(cs)) \o StrLit(Tail(cs))

\* Width in bytes of the character whose first byte is b0 (str decoding).
Utf8Width(b0) ==
    IF b0 < 128 THEN 1 ELSE IF b0 < 224 THEN 2 ELSE IF b0 < 240 THEN 3 ELSE 4

\* The character that starts at byte offset i (0-based) of the string b.
DecodeAt(b, i) ==
    LET b0 == b[i + 1]
        w  == Utf8Width(b0)
    IN  IF w = 1 THEN b0
        ELSE IF w = 2 THEN (b0 - 192) * 64 + (b[i + 2] - 128)
        ELSE IF w = 3
             THEN (b0 - 224) * 4096 + (b[i + 2] - 128) * 64 + (b[i + 3] - 128)
             ELSE (b0 - 240) * 262144 + (b[i + 2] - 128) * 4096
                  + (b[i + 3] - 128) * 64 + (b[i + 4] - 128)

\* str::is_char_boundary: what a slice `&b[..i]` requires, or it panics.
IsCharBoundary(b, i) ==
    \/ i = 0
    \/ i = Len(b)
    \/ i > 0 /\ i < Len(b) /\ ~(b[i + 1] >= 128 /\ b[i + 1] < 192)

\* ------------------------------------------------------------------ Value
ValueChar(c) == [tag |-> "Char", c |-> c]
ValueStr(str) == [tag |-> "Str", s |-> str]

\* HashMap::get on the extra mapping, a function from characters to strings.
dispatch_extra(c, ex) ==
    IF c \in DOMAIN ex THEN ValueStr(ex[c]) ELSE ValueChar(c)

\* Faulty variants of dispatch_for_pcdata: `extra` looked up before the match;
\* an arm for '>' as in the attribute function; no arm for '&'.
dispatch_for_pcdata_extra_first(c, ex) ==
    IF c \in DOMAIN ex THEN ValueStr(ex[c])
    ELSE IF c = LT THEN ValueStr(StrLit(<<38, 108, 116, 59>>))
    ELSE IF c = AMP THEN ValueStr(StrLit(<<38, 97, 109, 112, 59>>))
    ELSE ValueChar(c)

dispatch_for_pcdata_escapes_gt(c, ex) ==
    IF c = LT THEN ValueStr(StrLit(<<38, 108, 116, 59>>))
    ELSE IF c = GT THEN ValueStr(StrLit(<<38, 103, 116, 59>>))
    ELSE IF c = AMP THEN ValueStr(StrLit(<<38, 97, 109, 112, 59>>))
    ELSE dispatch_extra(c, ex)

dispatch_for_pcdata_keeps_amp(c, ex) ==
    IF c = LT THEN ValueStr(StrLit(<<38, 108, 116, 59>>))
    ELSE dispatch_extra(c, ex)

dispatch_for_attribute(c, ex) ==
    IF c = LT THEN ValueStr(StrLit(<<38, 108, 116, 59>>))
    ELSE IF c = GT THEN ValueStr(StrLit(<<38, 103, 116, 59>>))
    ELSE IF c = QUOT THEN ValueStr(StrLit(<<38, 113, 117, 111, 116, 59>>))
    ELSE IF c = APOS THEN ValueStr(StrLit(<<38, 97, 112, 111, 115, 59>>))
    ELSE IF c = AMP THEN ValueStr(StrLit(<<38, 97, 109, 112, 59>>))
    ELSE IF c = NL THEN ValueStr(StrLit(<<38, 35, 120, 65, 59>>))
    ELSE IF c = CR THEN ValueStr(StrLit(<<38, 35, 120, 68, 59>>))
    ELSE dispatch_extra(c, ex)

dispatch_for_pcdata(c, ex) ==
    IF c = LT THEN ValueStr(StrLit(<<38, 108, 116, 59>>))
    ELSE IF c = AMP THEN ValueStr(StrLit(<<38, 97, 109, 112, 59>>))
    ELSE dispatch_extra(c, ex)

\* The call through the `dispatch` function pointer of escape_str; which of
\* the two functions it points to is fixed by the public entry point.
dispatch(d, c, ex) ==
    IF d = "attribute" THEN dispatch_for_attribute(c, ex)
    ELSE dispatch_for_pcdata(c, ex)

\* ---------------------------------------------------------------- Process
Borrowed(b) == [tag |-> "Borrowed", b |-> b]
Owned(o) == [tag |-> "Owned", o |-> o]
\* The unwinding of a panicking slice `&b[..i]`.
Panicked == [tag |-> "Panic"]

\* Faulty variants of process.
\* The buffer is created at the first character, escapable or not.
process_always_owned(self, i, next) ==
    IF self.tag = "Panic" THEN self
    ELSE LET text == IF next.tag = "Str" THEN next.s ELSE Utf8(next.c)
         IN  IF self.tag = "Owned"
             THEN Owned(self.o \o text)
             ELSE IF i <= Len(self.b) /\ IsCharBoundary(self.b, i)
                  THEN Owned(SubSeq(self.b, 1, i) \o text)
                  ELSE Panicked

\* A kept character is not pushed onto the owned buffer.
process_forgets_keep(self, i, next) ==
    IF self.tag = "Panic" THEN self
    ELSE IF next.tag = "Str"
    THEN IF self.tag = "Owned"
         THEN Owned(self.o \o next.s)
         ELSE IF i <= Len(self.b) /\ IsCharBoundary(self.b, i)
              THEN Owned(SubSeq(self.b, 1, i) \o next.s)
              ELSE Panicked
    ELSE self

\* An empty replacement is treated as nothing to do.
process_skips_empty(self, i, next) ==
    IF self.tag = "Panic" THEN self
    ELSE IF next.tag = "Str"
    THEN IF next.s = <<>> THEN self
         ELSE IF self.tag = "Owned"
         THEN Owned(self.o \o next.s)
         ELSE IF i <= Len(self.b) /\ IsCharBoundary(self.b, i)
              THEN Owned(SubSeq(self.b, 1, i) \o next.s)
              ELSE Panicked
    ELSE IF self.tag = "Borrowed"
         THEN self
         ELSE Owned(self.o \o Utf8(next.c))

\* The whole input is copied at the first replacement, not the prefix.
process_copies_whole(self, i, next) ==
    IF self.tag = "Panic" THEN self
    ELSE IF next.tag = "Str"
    THEN IF self.tag = "Owned"
         THEN Owned(self.o \o next.s)
         ELSE Owned(self.b \o next.s)
    ELSE IF self.tag = "Borrowed"
         THEN self
         ELSE Owned(self.o \o Utf8(next.c))

\* The prefix is not copied at the first replacement.
process_drops_prefix(self, i, next) ==
    IF self.tag = "Panic" THEN self
    ELSE IF next.tag = "Str"
    THEN IF self.tag = "Owned"
         THEN Owned(self.o \o next.s)
         ELSE Owned(next.s)
    ELSE IF self.tag = "Borrowed"
         THEN self
         ELSE Owned(self.o \o Utf8(next.c))

\* Process::process(&mut self, (i, next)): the value of *self afterwards.
process(self, i, next) ==
    IF self.tag = "Panic" THEN self
    ELSE IF next.tag = "Str"
    THEN IF self.tag = "Owned"
         THEN Owned(self.o \o next.s)
         ELSE IF i <= Len(self.b) /\ IsCharBoundary(self.b, i)
              THEN Owned(SubSeq(self.b, 1, i) \o next.s)
              ELSE Panicked
    ELSE IF self.tag = "Borrowed"
         THEN self
         ELSE Owned(self.o \o Utf8(next.c))

\* The capacity String::with_capacity is asked for when process creates the
\* owned buffer.
with_capacity(self, next) == Len(self.b) + Len(next.s)

\* Whether process creates an owned buffer (String::with_capacity is called).
creates_buffer(self, next) == self.tag = "Borrowed" /\ next.tag = "Str"

into_result(self) == self

\* ----------------------------------------------------------------- Driver
\* s.char_indices(): the (byte offset, character) pairs of s from offset i on.
RECURSIVE char_indices_from(_, _)
char_indices_from(str, i) ==
    IF i >= Len(str) THEN <<>>
    ELSE <<[ind |-> i, c |-> DecodeAt(str, i)]>>
         \o char_indices_from(str, i + Utf8Width(str[i + 1]))

char_indices(str) == char_indices_from(str, 0)

\* Faulty variant of the iterator: chars().enumerate(), which pairs each
\* character with its index in characters, not with its byte offset.
iter_next_enumerate(str, i) ==
    [ind |-> Cardinality({k \in 1..i : ~(str[k] >= 128 /\ str[k] < 192)}),
     c |-> DecodeAt(str, i)]

\* One item of the iterator at byte offset i, and the offset after it.
iter_next(str, i) == [ind |-> i, c |-> DecodeAt(str, i)]
iter_advance(str, i) == i + Utf8Width(str[i + 1])

\* Extend::extend: process every item of the mapped iterator, in order.
RECURSIVE extend(_, _, _, _)
extend(self, items, d, ex) ==
    IF items = <<>> THEN self
    ELSE extend(process(self, Head(items).ind, dispatch(d, Head(items).c, ex)),
                Tail(items), d, ex)

escape_str(str, d, ex) ==
    into_result(extend(Borrowed(str), char_indices(str), d, ex))

escape_str_attribute(str, ex) == escape_str(str, "attribute", ex)
escape_str_pcdata(str, ex) == escape_str(str, "pcdata", ex)

\* The text of a Cow<str> (or of a Process).
Content(r) == IF r.tag = "Borrowed" THEN r.b ELSE r.o

\* ----------------------------------------------------------------- inputs
Alphabet == {LT, GT, QUOT, APOS, AMP, NL, CR, LetterA, Period, Snowman}

RECURSIVE CharSeqs(_)
CharSeqs(n) ==
    IF n = 0 THEN {<<>>}
    ELSE LET shorter == CharSeqs(n - 1)
         IN  shorter \cup {Append(cs, c) : cs \in {x \in shorter : Len(x) = n - 1},
                                           c \in Alphabet}

Inputs == {StrLit(cs) : cs \in CharSeqs(MaxLen)}

\* The extra mappings of the calls: empty; the test's '.' -> "&period;"; one
\* that names every built-in character (each mapped to "!"); one with an empty
\* replacement and a replacement equal to its key; one whose replacement is a
\* raw '<'; one that deletes the letters of "amp;"; one keyed by a multi-byte
\* character with a multi-byte replacement.
Extras ==
    { <<>>,
      (Period :> StrLit(<<38, 112, 101, 114, 105, 111, 100, 59>>)),
      [c \in {LT, GT, QUOT, APOS, AMP, NL, CR} |-> StrLit(<<33>>)],
      (LetterA :> <<>>) @@ (Period :> StrLit(<<Period>>)),
      (Period :> StrLit(<<LT>>)),
      [c \in {97, 109, 112, 59} |-> <<>>],
      (Snowman :> StrLit(<<233>>)) }

\* ------------------------------------------------------------------ state
VARIABLES
    s,       \* the input string of the call
    ctx,     \* which dispatch function the entry point passed
    extra,   \* the extra mapping of the call
    it,      \* byte offset of the char_indices iterator
    p,       \* the Process
    pc,      \* "loop", "done" (returned) or "panic"
    res,     \* the returned Cow, once returned
    allocs,  \* history: number of owned buffers created
    cap,     \* history: capacity requested for the owned buffer
    trace    \* history: the items processed, with their characters

vars == <<s, ctx, extra, it, p, pc, res, allocs, cap, trace>>

NoResult == [tag |-> "None"]

\* escape_str up to the loop: `let mut p = Process::Borrowed(s)` and the
\* iterator at the start of s.
Init ==
    /\ s \in Inputs
    /\ ctx \in {"attribute", "pcdata"}
    /\ extra \in Extras
    /\ it = 0
    /\ p = Borrowed(s)
    /\ pc = "loop"
    /\ res = NoResult
    /\ allocs = 0
    /\ cap = 0
    /\ trace = <<>>

\* One iteration of the loop of extend: the iterator yields (ind, c), the map
\* closure classifies c, process folds the result into p.
Step ==
    /\ pc = "loop"
    /\ it < Len(s)
    /\ LET item == iter_next(s, it)
           next == dispatch(ctx, item.c, extra)
           q    == process(p, item.ind, next)
       IN  /\ p' = q
           /\ pc' = IF q.tag = "Panic" THEN "panic" ELSE "loop"
           /\ allocs' = IF creates_buffer(p, next) THEN allocs + 1 ELSE allocs
           /\ cap' = IF creates_buffer(p, next) THEN with_capacity(p, next) ELSE cap
           /\ trace' = Append(trace, [ind |-> item.ind, c |-> item.c, v |-> next])
    /\ it' = iter_advance(s, it)
    /\ UNCHANGED <<s, ctx, extra, res>>

\* The iterator is exhausted: extend returns and p.into_result() is returned.
Finish ==
    /\ pc = "loop"
    /\ it >= Len(s)
    /\ res' = into_result(p)
    /\ pc' = "done"
    /\ UNCHANGED <<s, ctx, extra, it, p, allocs, cap, trace>>

Next == Step \/ Finish

Spec == Init /\ [][Next]_vars

\* ------------------------------------------------- reference definitions
\* The characters of a string, in order.
Chars(str) == [k \in 1..Len(char_indices(str)) |-> char_indices(str)[k].c]

\* Number of characters of a string: its bytes that are not continuation bytes.
NumChars(str) == Cardinality({k \in 1..Len(str) : ~(str[k] >= 128 /\ str[k] < 192)})

\* The fixed escape characters of each context, and their entities.
FixedSet(d) ==
    IF d = "attribute" THEN {LT, GT, QUOT, APOS, AMP, NL, CR} ELSE {LT, AMP}

AttributeOnly == {GT, QUOT, APOS, NL, CR}

Entity(c) ==
    CASE c = LT   -> StrLit(<<38, 108, 116, 59>>)
      [] c = GT   -> StrLit(<<38, 103, 116, 59>>)
      [] c = QUOT -> StrLit(<<38, 113, 117, 111, 116, 59>>)
      [] c = APOS -> StrLit(<<38, 97, 112, 111, 115, 59>>)
      [] c = AMP  -> StrLit(<<38, 97, 109, 112, 59>>)
      [] c = NL   -> StrLit(<<38, 35, 120, 65, 59>>)
      [] c = CR   -> StrLit(<<38, 35, 120, 68, 59>>)

\* What one character contributes to the output: its replacement on Replace,
\* itself on Keep.
Output(d, c, ex) ==
    LET v == dispatch(d, c, ex) IN IF v.tag = "Str" THEN v.s ELSE Utf8(c)

IsReplace(d, c, ex) == dispatch(d, c, ex).tag = "Str"

RECURSIVE ConcatOutputs(_, _, _)
ConcatOutputs(cs, d, ex) ==
    IF cs = <<>> THEN <<>>
    ELSE Output(d, Head(cs), ex) \o ConcatOutputs(Tail(cs), d, ex)

\* The characters of the items processed so far.
Processed == [k \in 1..Len(trace) |-> trace[k].c]

Bytes(str) == {str[k] : k \in 1..Len(str)}
CharSet(str) == {Chars(str)[k] : k \in 1..Len(Chars(str))}

Done == pc = "done"

AmpText == StrLit(<<38, 97, 109, 112, 59>>)
AmpAmpText == StrLit(<<38, 97, 109, 112, 59, 97, 109, 112, 59>>)

\* ----------------------------------------------------------------- claims

\* C1: an input with none of the context's fixed characters and no key of
\* `extra` is returned as Cow::Borrowed of the input itself, and no owned
\* buffer is created at any point of the call.
NoEscapeIdentity ==
    (CharSet(s) \cap (FixedSet(ctx) \cup DOMAIN extra) = {}) =>
        /\ allocs = 0
        /\ p = Borrowed(s)
        /\ Done => res = Borrowed(s)

NoEscapeIdentityWitness ==
    /\ Done
    /\ ctx = "pcdata"
    /\ DOMAIN extra = {Period}
    /\ s = StrLit(<<Snowman, GT, LetterA>>)
    /\ res = Borrowed(s)
    /\ allocs = 0

\* C2: the returned text is the concatenation, over the input's characters in
\* order, of the replacement string of each character classified Replace and
\* of the character itself when classified Keep.
ResultIsConcatenation ==
    Done => Content(res) = ConcatOutputs(Chars(s), ctx, extra)

\* "☃<." with {'.' -> "&period;"} gives "☃&lt;&period;".
ResultIsConcatenationWitness ==
    /\ Done
    /\ s = StrLit(<<Snowman, LT, Period>>)
    /\ DOMAIN extra = {Period}
    /\ extra[Period] = StrLit(<<38, 112, 101, 114, 105, 111, 100, 59>>)
    /\ res = Owned(StrLit(<<Snowman, 38, 108, 116, 59,
                            38, 112, 101, 114, 105, 111, 100, 59>>))

\* C3: every character of the context's fixed set is classified as its
\* built-in entity whatever `extra` holds, and the entries of `extra` for
\* fixed characters have no effect on the returned text.
FixedSetPrecedence ==
    /\ \A c \in FixedSet(ctx) : dispatch(ctx, c, extra) = ValueStr(Entity(c))
    /\ Done =>
         /\ Content(res) = Content(escape_str(s, ctx,
                [c \in DOMAIN extra \ FixedSet(ctx) |-> extra[c]]))
         /\ (CharSet(s) \subseteq FixedSet(ctx)) =>
                \A c \in FixedSet(ctx) \cap DOMAIN extra :
                    Bytes(extra[c]) \cap Bytes(Content(res)) = {}

FixedSetPrecedenceWitness ==
    /\ Done
    /\ ctx = "pcdata"
    /\ LT \in DOMAIN extra
    /\ extra[LT] = StrLit(<<33>>)
    /\ s = StrLit(<<LT, AMP, LT>>)
    /\ res = Owned(Entity(LT) \o Entity(AMP) \o Entity(LT))

\* The input with each attribute-only character replaced by its entity.
RECURSIVE AttributeOnlyEscaped(_)
AttributeOnlyEscaped(cs) ==
    IF cs = <<>> THEN <<>>
    ELSE (IF Head(cs) \in AttributeOnly THEN Entity(Head(cs)) ELSE Utf8(Head(cs)))
         \o AttributeOnlyEscaped(Tail(cs))

\* C4: a character among > " ' \n \r that `extra` has no entry for is replaced
\* by its entity under attribute escaping and kept under PCDATA escaping; an
\* input whose only escapable characters are such ones comes back escaped and
\* Owned from escape_str_attribute, and Borrowed, unchanged, from
\* escape_str_pcdata.
ContextDifference ==
    /\ \A c \in AttributeOnly \ DOMAIN extra :
          /\ dispatch_for_attribute(c, extra) = ValueStr(Entity(c))
          /\ dispatch_for_pcdata(c, extra) = ValueChar(c)
    /\ (Done /\ CharSet(s) \cap (DOMAIN extra \cup {LT, AMP}) = {}) =>
          IF ctx = "pcdata"
          THEN res = Borrowed(s)
          ELSE /\ Content(res) = AttributeOnlyEscaped(Chars(s))
               /\ res.tag = "Owned" <=> CharSet(s) \cap AttributeOnly # {}

\* "a>." comes back Borrowed and unchanged from escape_str_pcdata.
ContextDifferenceWitness ==
    /\ Done
    /\ ctx = "pcdata"
    /\ DOMAIN extra = {}
    /\ s = StrLit(<<LetterA, GT, Period>>)
    /\ res = Borrowed(s)
    /\ escape_str_attribute(s, extra)
         = Owned(StrLit(<<LetterA, 38, 103, 116, 59, Period>>))

\* C5: the text escape_str_attribute returns holds no raw < > " ' newline or
\* carriage return, and the text escape_str_pcdata returns holds no raw <,
\* whatever the replacement strings of `extra` contain.
OutputIsSafe ==
    Done =>
        /\ ctx = "attribute" =>
             Bytes(Content(res)) \cap {LT, GT, QUOT, APOS, NL, CR} = {}
        /\ ctx = "pcdata" => LT \notin Bytes(Content(res))

\* The text of escaping the returned text once more, same context and mapping.
Reescaped == Content(escape_str(Content(res), ctx, extra))

NoReplaceDecision == \A c \in CharSet(s) : ~IsReplace(ctx, c, extra)

\* C6 as stated: "&" gives "&amp;" and that gives "&amp;amp;"; an input with a
\* character of the fixed set is changed again by a second escaping; an input
\* with no Replace decision is left as it is by both.
NotIdempotent ==
    Done =>
        /\ s = StrLit(<<AMP>>) =>
             Content(res) = AmpText /\ Reescaped = AmpAmpText
        /\ CharSet(s) \cap FixedSet(ctx) # {} => Reescaped # Content(res)
        /\ NoReplaceDecision => Reescaped = Content(res) /\ Content(res) = s

\* C6, amended: the same, for an extra mapping that has no entry for any of
\* the characters a, m, p, ; of "&amp;".
NotIdempotentUnlessAmpRemapped ==
    (DOMAIN extra \cap {97, 109, 112, 59} = {}) => NotIdempotent

NotIdempotentWitness ==
    /\ Done
    /\ s = StrLit(<<AMP>>)
    /\ DOMAIN extra = {Period}
    /\ Content(res) = AmpText
    /\ Reescaped = AmpAmpText

\* C7: no call panics or gets stuck before it has returned; the items
\* processed are one per character of the input, at strictly increasing byte
\* offsets inside the input; the call returns a Cow after exactly as many
\* steps as the input has characters.
TotalAndTerminating ==
    /\ pc \in {"loop", "done"}
    /\ Done \/ ENABLED Next
    /\ Len(trace) <= NumChars(s)
    /\ \A k \in 1..Len(trace) :
          /\ trace[k].ind >= 0 /\ trace[k].ind < Len(s)
          /\ k > 1 => trace[k - 1].ind < trace[k].ind
          /\ trace[k].v = dispatch(ctx, trace[k].c, extra)
    /\ Done =>
          /\ Len(trace) = NumChars(s)
          /\ StrLit(Processed) = s
          /\ res.tag \in {"Borrowed", "Owned"}

TotalAndTerminatingWitness ==
    /\ Done
    /\ s = StrLit(<<Snowman, AMP, Snowman>>)
    /\ Len(trace) = 3
    /\ trace[3].ind = 4
    /\ res.tag = "Owned"

Last(sq) == sq[Len(sq)]

\* C8: a call starts Borrowed; Borrowed becomes Owned only in the step that
\* processes a Replace, which is then the first Replace of the call and the
\* only creation of a buffer; every Replace processed while Borrowed makes the
\* step; once Owned, the state is Owned after every later step and in the
\* returned value.
AccumulatorStateMachine ==
    /\ [](trace = <<>> => p = Borrowed(s) /\ allocs = 0)
    /\ [][/\ p.tag = "Owned" => p'.tag = "Owned" /\ allocs' = allocs
          /\ (p.tag = "Borrowed" /\ p'.tag = "Owned") =>
                /\ trace' # trace
                /\ Last(trace').v.tag = "Str"
                /\ \A k \in 1..Len(trace) : trace[k].v.tag = "Char"
                /\ allocs = 0 /\ allocs' = 1
          /\ (p.tag = "Borrowed" /\ trace' # trace /\ Last(trace').v.tag = "Str")
                => p'.tag = "Owned"
          /\ (pc = "loop" /\ pc' = "done") => res' = p /\ p' = p
          /\ p'.tag \in {"Borrowed", "Owned"}
         ]_vars

\* A Keep and a Replace were processed after the transition.
AccumulatorStateMachineWitness ==
    /\ Done
    /\ Len(trace) = 3
    /\ trace[1].v.tag = "Str"
    /\ trace[2].v.tag = "Char"
    /\ trace[3].v.tag = "Str"
    /\ res.tag = "Owned"
    /\ allocs = 1

RECURSIVE SumUtf8Len(_)
SumUtf8Len(cs) ==
    IF cs = <<>> THEN 0 ELSE Len(Utf8(Head(cs))) + SumUtf8Len(Tail(cs))

\* C9: in the step that processes the first Replace, the byte offset handed to
\* process is the sum of the encoded lengths of the characters before it, a
\* character boundary inside the input; the buffer right after the step is
\* the input's bytes [0, offset), which are those characters whole, followed
\* by the replacement; the capacity asked for is at least the two lengths.
PrefixCopyAtBoundary ==
    [][(p.tag = "Borrowed" /\ trace' # trace /\ Last(trace').v.tag = "Str") =>
          LET i == Last(trace').ind
              r == Last(trace').v.s
          IN  /\ i = SumUtf8Len(Processed)
              /\ i <= Len(s)
              /\ IsCharBoundary(s, i)
              /\ SubSeq(s, 1, i) = StrLit(Processed)
              /\ p' = Owned(SubSeq(s, 1, i) \o r)
              /\ cap' >= i + Len(r)
      ]_vars

\* The prefix copied holds a multi-byte character.
PrefixCopyAtBoundaryWitness ==
    /\ Len(trace) = 2
    /\ trace[1].c = Snowman
    /\ trace[2].ind = 3
    /\ trace[2].v = ValueStr(Entity(LT))
    /\ p = Owned(StrLit(<<Snowman>>) \o Entity(LT))
    /\ allocs = 1
    /\ cap >= 7

\* C10: after any prefix of the characters, the state is Owned iff one of
\* them was classified Replace, and then the buffer is the concatenation of
\* their outputs; if it is Borrowed, all of them were Keep and the reference
\* is the whole input.
LoopInvariant ==
    /\ Processed = SubSeq(Chars(s), 1, Len(trace))
    /\ p.tag \in {"Borrowed", "Owned"}
    /\ p.tag = "Owned" <=> \E k \in 1..Len(trace) : IsReplace(ctx, trace[k].c, extra)
    /\ p.tag = "Owned" => p.o = ConcatOutputs(Processed, ctx, extra)
    /\ p.tag = "Borrowed" =>
          /\ \A k \in 1..Len(trace) : ~IsReplace(ctx, trace[k].c, extra)
          /\ p.b = s
    /\ Done => res = p

\* A replacement that is the empty string, then one equal to its character.
LoopInvariantWitness ==
    /\ Len(trace) = 2
    /\ trace[1].c = LetterA /\ trace[1].v = ValueStr(<<>>)
    /\ trace[2].c = Period /\ trace[2].v = ValueStr(StrLit(<<Period>>))
    /\ p = Owned(StrLit(<<Period>>))
    /\ Len(s) = 3

====
